---- MODULE Spec2Model ----
(***************************************************************************)
(* The Messages page (client/src/pages/messages.tsx): peer selection, the  *)
(* realtime subscription effect, the typing indicator with its shared      *)
(* timeout ref, the composer and the two cached queries.                   *)
(*                                                                         *)
(* Strings are sequences of character codes.  Time advances in steps of    *)
(* one second (Tick); a timer that is due fires before time advances.      *)
(* A state change and the effects React runs for it are one step.          *)
(*                                                                         *)
(* Next is every handler.  The properties are decided under four narrower  *)
(* specifications (SpecTyping, SpecComposer, SpecStore, SpecSend), each    *)
(* the handlers of one concern that touch the variables it reads.          *)
(*                                                                         *)
(* idleElapsed and expiryElapsed are stopwatches kept beside the program   *)
(* state: idleElapsed runs from a non-empty input change until the idle    *)
(* timer fires or the user sends, empties the draft or changes peer;       *)
(* expiryElapsed runs from a typing:true shown until another typing        *)
(* broadcast of the peer, an input change or a peer change.                *)
(***************************************************************************)
EXTENDS Integers, Sequences, FiniteSets, TLC

(* ---- bounds ---- *)
MaxLen == 2          \* longest draft typed into the input
MaxMsgs == 1         \* most rows the messages table holds
MaxPending == 1      \* most create-message requests in flight
MaxTimers == 2       \* size of the pool of timer handles
MaxIdLen == 2        \* longest user id the topic derivation is tried on
MaxInFlight == 2     \* most requests in flight where Enter is pressed again

(* ---- program constants ---- *)
IdleDelay == 2       \* setTimeout(..., 2000) in handleInputChange
ExpiryDelay == 3     \* setTimeout(..., 3000) in the typing handler

(* ---- characters and ids ---- *)
Space == 32
Dash == 45
Text == <<104>>                    \* "h": a draft, or a row's content, with text
Null == << >>                      \* null / "" / undefined: every falsy id
Me == <<97>>                       \* currentUser.id once signed in
PeerB == <<98>>
PeerC == <<99>>
Users == {Me, PeerB, PeerC}
Peers == {Me, PeerB, PeerC}         \* ids reachable by ?user= or the list
ChatPrefix == <<99, 104, 97, 116, Dash>>   \* "chat-"

RECURSIVE SeqsUpTo(_, _)
SeqsUpTo(S, n) ==
    IF n = 0 THEN { << >> }
    ELSE LET shorter == SeqsUpTo(S, n - 1)
         IN  shorter \cup { Append(s, c) : s \in shorter, c \in S }

Drafts == SeqsUpTo({Space, Text[1]}, MaxLen)

(* ---- pure helpers ---- *)

\* String.prototype.trim on the draft: strip leading and trailing whitespace.
RECURSIVE TrimStart(_)
TrimStart(s) ==
    IF s # << >> /\ Head(s) = Space THEN TrimStart(Tail(s)) ELSE s

RECURSIVE TrimEnd(_)
TrimEnd(s) ==
    IF s # << >> /\ s[Len(s)] = Space THEN TrimEnd(SubSeq(s, 1, Len(s) - 1)) ELSE s

Trim(s) == TrimEnd(TrimStart(s))

\* Array.prototype.sort default order on two strings: by code unit, a proper
\* prefix first.
RECURSIVE StrLess(_, _)
StrLess(a, b) ==
    IF b = << >> THEN FALSE
    ELSE IF a = << >> THEN TRUE
    ELSE IF Head(a) # Head(b) THEN Head(a) < Head(b)
    ELSE StrLess(Tail(a), Tail(b))

SortPair(a, b) == IF StrLess(b, a) THEN <<b, a>> ELSE <<a, b>>

\* a topic that keeps the two ids in the order given
channelNameUnsorted(user, peer) ==
    ChatPrefix \o user \o <<Dash>> \o peer

\* a topic that joins the two sorted ids with nothing between them
channelNameNoSeparator(user, peer) ==
    LET userIds == SortPair(user, peer)
    IN  ChatPrefix \o userIds[1] \o userIds[2]

\* `chat-${userIds[0]}-${userIds[1]}`
channelName(user, peer) ==
    LET userIds == SortPair(user, peer)
    IN  ChatPrefix \o userIds[1] \o <<Dash>> \o userIds[2]

\* a relevance test that looks at the current user only
isRelevantToUser(sender, receiver, user, peer) ==
    sender = user \/ receiver = user

\* a relevance test that knows the peer's messages only, not the user's own
isRelevantFromPeer(sender, receiver, user, peer) ==
    sender = peer /\ receiver = user

\* isRelevant of the postgres_changes handler
isRelevant(sender, receiver, user, peer) ==
    \/ (sender = user /\ receiver = peer)
    \/ (sender = peer /\ receiver = user)

\* a filter that lets every declared sender through
FromAnyone(userId, peer) == TRUE

\* the filter of the broadcast handler: userId === selectedUserId
FromSelectedPeer(userId, peer) == userId = peer

\* sendTypingEvent: the events it publishes (none when a guard returns early)
sendTypingEvent(user, peer, typing) ==
    IF user = Null \/ peer = Null THEN << >>
    ELSE << [topic |-> channelName(user, peer), userId |-> user, isTyping |-> typing] >>

(* ---- state ---- *)
VARIABLES
    currentUser,          \* useAuth().user, as its id, or Null
    selectedUserId,       \* useState: the selected peer, or Null
    messageInput,         \* useState: the draft
    isTyping,             \* useState: the remote-typing flag
    typingTimeoutRef,     \* useRef: a timer handle, 0 for null
    timers,               \* pending setTimeout callbacks
    channels,             \* live realtime channels of this page
    pending,              \* create-message requests in flight
    store,                \* the rows of the messages table
    conversationsQuery,   \* useQuery(['conversations'])
    messagesQuery,        \* useQuery(['messages', peer]) per key
    emitted,              \* typing events published by the last handler
    op,                   \* the last handler that ran
    idleElapsed,          \* seconds since the last non-empty input change, or -1
    expiryElapsed         \* seconds since the last typing:true shown, or -1

vars == << currentUser, selectedUserId, messageInput, isTyping, typingTimeoutRef,
           timers, channels, pending, store, conversationsQuery, messagesQuery,
           emitted, op, idleElapsed, expiryElapsed >>

typingVars == << isTyping, typingTimeoutRef, timers >>
queryVars == << conversationsQuery, messagesQuery >>

NoQueryData == [hasData |-> FALSE, data |-> << >>, isError |-> FALSE, isFetching |-> FALSE]
NoConversations == [hasData |-> FALSE, data |-> {}, isError |-> FALSE, isFetching |-> FALSE]

\* a handler's name, and for SelectPeer the peer it replaced
Op(name, from) == [name |-> name, from |-> from]

(* ---- the external store, as the page's api calls see it ---- *)

\* api.getMessages(peer): the thread between the two users, oldest first
getMessages(rows, user, peer) ==
    SelectSeq(rows, LAMBDA m : \/ (m.sender_id = user /\ m.receiver_id = peer)
                               \/ (m.sender_id = peer /\ m.receiver_id = user))

\* api.getConversations(): one summary per peer with a message exchanged
getConversations(rows, user) ==
    { [user |-> p, lastMessage |-> getMessages(rows, user, p)[Len(getMessages(rows, user, p))].id] :
        p \in { q \in Users : getMessages(rows, user, q) # << >> } }

\* api.sendMessage(receiverId, content): the row the store creates
createMessage(rows, sender, receiver, content) ==
    Append(rows, [id |-> Len(rows) + 1, sender_id |-> sender,
                  receiver_id |-> receiver, content |-> content])

(* ---- timers ---- *)

TimerIds == 1 .. MaxTimers
FreeIds(ts) == TimerIds \ { t.id : t \in ts }

\* the handle setTimeout returns: one no pending timer holds
NewTimerId(ts) == CHOOSE i \in FreeIds(ts) : \A j \in FreeIds(ts) : i <= j

\* clearTimeout(handle): a handle that is null or has fired clears nothing
clearTimeout(ts, handle) == { t \in ts : t.id # handle }

\* setTimeout(callback, delay)
setTimeout(ts, id, kind, delay, user, peer) ==
    ts \cup { [id |-> id, kind |-> kind, left |-> delay, user |-> user, peer |-> peer] }

(* ---- the subscription effect (lines 93-161) ---- *)

\* the effect body: nothing without a user and a peer, else one channel
EffectSetup(user, peer) ==
    IF user = Null \/ peer = Null THEN {}
    ELSE { [topic |-> channelName(user, peer), user |-> user, peer |-> peer] }

\* a cleanup that forgets supabase.removeChannel(channel)
CleanupKeepsChannel(chs, user, peer) == chs

\* the channels left by the cleanup of the effect that `user`, `peer` had run
CleanupChannels(chs, user, peer) ==
    chs \ EffectSetup(user, peer)

\* the timers left by that cleanup: it clears the handle in typingTimeoutRef
CleanupTimers(ts, user, peer, handle) ==
    IF user = Null \/ peer = Null THEN ts ELSE clearTimeout(ts, handle)

\* the effect re-running because currentUser or selectedUserId changed
RerunEffect(user, peer) ==
    /\ channels' = CleanupChannels(channels, currentUser, selectedUserId)
                       \cup EffectSetup(user, peer)
    /\ timers' = CleanupTimers(timers, currentUser, selectedUserId, typingTimeoutRef)

(* ---- the queries (lines 46-58) ---- *)

QueryEnabled(user, peer) == user # Null /\ peer # Null

\* invalidateQueries: an enabled, observed query refetches; others are untouched
Invalidated(q, active) == IF active THEN [q EXCEPT !.isFetching = TRUE] ELSE q

InvalidateMessages(key) ==
    [k \in Peers |->
        Invalidated(messagesQuery[k],
                    k = key /\ k = selectedUserId /\ QueryEnabled(currentUser, k))]

\* an onSuccess that leaves the conversation list alone
ConversationsNotInvalidated == conversationsQuery

InvalidateConversations == Invalidated(conversationsQuery, currentUser # Null)

\* a resolved fetch that keeps what the cache already holds
FetchResolvedKeepsCache(q, result) ==
    [hasData |-> TRUE, data |-> IF q.hasData THEN q.data ELSE result,
     isError |-> FALSE, isFetching |-> FALSE]

\* a query whose fetch resolved: the result replaces the cached data
FetchResolved(q, result) ==
    [hasData |-> TRUE, data |-> result, isError |-> FALSE, isFetching |-> FALSE]

\* a rejected fetch that drops what was cached
FetchRejectedClears(q) ==
    [q EXCEPT !.hasData = FALSE, !.isError = TRUE, !.isFetching = FALSE]

\* a query whose fetch rejected: the cached data stays, the error is recorded
FetchRejected(q) == [q EXCEPT !.isError = TRUE, !.isFetching = FALSE]

\* a query gaining its observer: it fetches when it holds no data, and may
\* refetch held data (the client's staleTime decides)
Mounted(q, enabled, refetch) ==
    IF enabled /\ (refetch \/ ~q.hasData) THEN [q EXCEPT !.isFetching = TRUE] ELSE q

(* ---- construction ---- *)

Init ==
    /\ currentUser = Null
    /\ selectedUserId = Null
    /\ messageInput = << >>
    /\ isTyping = FALSE
    /\ typingTimeoutRef = 0
    /\ timers = {}
    /\ channels = {}
    /\ pending = << >>
    /\ store = << >>
    /\ conversationsQuery = NoConversations
    /\ messagesQuery = [k \in Peers |-> NoQueryData]
    /\ emitted = << >>
    /\ op = Op("mount", Null)
    /\ idleElapsed = -1
    /\ expiryElapsed = -1

(* ---- handlers ---- *)

\* useAuth() delivering a user, or none: the effect and the queries follow
AuthChange(u) ==
    /\ u # currentUser
    /\ currentUser' = u
    /\ RerunEffect(u, selectedUserId)
    /\ \E refetch \in BOOLEAN :
        /\ conversationsQuery' = Mounted(conversationsQuery, u # Null, refetch)
        /\ messagesQuery' =
             [k \in Peers |-> IF k = selectedUserId
                              THEN Mounted(messagesQuery[k], QueryEnabled(u, k), refetch)
                              ELSE messagesQuery[k]]
    /\ emitted' = << >>
    /\ op' = Op("AuthChange", Null)
    /\ idleElapsed' = -1
    /\ expiryElapsed' = -1
    /\ UNCHANGED << selectedUserId, messageInput, isTyping, typingTimeoutRef, pending, store >>

\* setSelectedUserId(p): the ?user= effect, a conversation button, the back button
SelectPeer(p) ==
    /\ p # selectedUserId
    /\ selectedUserId' = p
    /\ RerunEffect(currentUser, p)
    /\ \E refetch \in BOOLEAN :
        messagesQuery' =
             [k \in Peers |-> IF k = p
                              THEN Mounted(messagesQuery[k], QueryEnabled(currentUser, k), refetch)
                              ELSE messagesQuery[k]]
    /\ emitted' = << >>
    /\ op' = Op("SelectPeer", selectedUserId)
    /\ idleElapsed' = -1
    /\ expiryElapsed' = -1
    /\ UNCHANGED << currentUser, messageInput, isTyping, typingTimeoutRef, pending, store,
                    conversationsQuery >>

\* the composer is on screen (lines 231 and 329)
ComposerRendered == currentUser # Null /\ selectedUserId # Null

\* the timers after handleInputChange(value)
InputTimers(value) ==
    IF Len(value) > 0
    THEN setTimeout(clearTimeout(timers, typingTimeoutRef),
                    NewTimerId(clearTimeout(timers, typingTimeoutRef)),
                    "idle", IdleDelay, currentUser, selectedUserId)
    ELSE timers

\* what handleInputChange(value) publishes
InputEmits(value) == sendTypingEvent(currentUser, selectedUserId, Len(value) > 0)

handleInputChange(value) ==
    /\ ComposerRendered
    /\ value # messageInput
    /\ FreeIds(clearTimeout(timers, typingTimeoutRef)) # {}
    /\ messageInput' = value
    /\ emitted' = InputEmits(value)
    /\ timers' = InputTimers(value)
    /\ typingTimeoutRef' = IF Len(value) > 0
                           THEN NewTimerId(clearTimeout(timers, typingTimeoutRef))
                           ELSE typingTimeoutRef
    /\ op' = Op("handleInputChange", Null)
    /\ idleElapsed' = IF Len(value) > 0 THEN 0 ELSE -1
    /\ expiryElapsed' = -1
    /\ UNCHANGED << currentUser, selectedUserId, isTyping, channels, pending, store,
                    conversationsQuery, messagesQuery >>

\* handleSendMessage's guard
CanSend(draft, peer) == Trim(draft) # << >> /\ peer # Null

\* a send that forgets to trim the content
SendRequestUntrimmed(draft, peer) == [receiverId |-> peer, content |-> draft]

\* the request sendMessageMutation.mutate is called with
SendRequest(draft, peer) == [receiverId |-> peer, content |-> Trim(draft)]

\* what handleSendMessage publishes
SendEmits == IF CanSend(messageInput, selectedUserId)
             THEN sendTypingEvent(currentUser, selectedUserId, FALSE)
             ELSE << >>

\* the timers handleSendMessage leaves: it touches none
SendTimers == timers

\* handleSendMessage, reached by `via`, with room for `cap` requests in flight
handleSendMessage(via, cap) ==
    /\ CanSend(messageInput, selectedUserId) => Len(pending) < cap
    /\ emitted' = SendEmits
    /\ pending' = IF CanSend(messageInput, selectedUserId)
                  THEN Append(pending, SendRequest(messageInput, selectedUserId))
                  ELSE pending
    /\ timers' = SendTimers
    /\ op' = Op(via, Null)
    /\ idleElapsed' = IF CanSend(messageInput, selectedUserId) THEN -1 ELSE idleElapsed
    /\ UNCHANGED << currentUser, selectedUserId, messageInput, isTyping, typingTimeoutRef,
                    channels, store, conversationsQuery, messagesQuery, expiryElapsed >>

\* the send button (line 443): disabled on an empty draft or a pending send
ClickSend ==
    /\ ComposerRendered
    /\ Trim(messageInput) # << >>
    /\ pending = << >>
    /\ handleSendMessage("ClickSend", MaxPending)

\* handleKeyPress: Enter without Shift
handleKeyPressWithin(cap) ==
    /\ ComposerRendered
    /\ handleSendMessage("handleKeyPress", cap)

\* the same under the bound on requests in flight
handleKeyPress == handleKeyPressWithin(MaxPending)

\* a sequence without its i-th element
RemoveAt(q, i) == SubSeq(q, 1, i - 1) \o SubSeq(q, i + 1, Len(q))

\* the draft after onSuccess: setMessageInput("")
DraftAfterSuccess(draft) == << >>

\* api.sendMessage resolved: the row exists and onSuccess runs, reading the
\* selectedUserId of the latest render
SendSuccess(i) ==
    /\ i \in 1 .. Len(pending)
    /\ Len(store) < MaxMsgs
    /\ store' = createMessage(store, Me, pending[i].receiverId, pending[i].content)
    /\ pending' = RemoveAt(pending, i)
    /\ messagesQuery' = InvalidateMessages(selectedUserId)
    /\ conversationsQuery' = InvalidateConversations
    /\ messageInput' = DraftAfterSuccess(messageInput)
    /\ emitted' = << >>
    /\ op' = Op("SendSuccess", Null)
    /\ UNCHANGED << currentUser, selectedUserId, isTyping, typingTimeoutRef, timers,
                    channels, idleElapsed, expiryElapsed >>

\* an error path that clears the input like the success path
DraftClearedOnFailure(draft) == << >>

\* the draft after a rejected send: the mutation has no onError
DraftAfterFailure(draft) == draft

\* api.sendMessage rejected
SendFailure(i) ==
    /\ i \in 1 .. Len(pending)
    /\ pending' = RemoveAt(pending, i)
    /\ messageInput' = DraftAfterFailure(messageInput)
    /\ emitted' = << >>
    /\ op' = Op("SendFailure", Null)
    /\ UNCHANGED << currentUser, selectedUserId, isTyping, typingTimeoutRef,
                    timers, channels, store, conversationsQuery, messagesQuery,
                    idleElapsed, expiryElapsed >>

\* the postgres_changes handler of a live channel, for an inserted row
OnChangeEvent(sender, receiver) ==
    \E ch \in channels :
        /\ IF isRelevant(sender, receiver, ch.user, ch.peer)
           THEN /\ messagesQuery' = InvalidateMessages(ch.peer)
                /\ conversationsQuery' = InvalidateConversations
           ELSE UNCHANGED << conversationsQuery, messagesQuery >>
        /\ emitted' = << >>
        /\ op' = Op("OnChangeEvent", Null)
        /\ UNCHANGED << currentUser, selectedUserId, messageInput, isTyping,
                        typingTimeoutRef, timers, channels, pending, store,
                        idleElapsed, expiryElapsed >>

\* the statuses the subscribe callback is called with
Statuses == {"SUBSCRIBED", "CHANNEL_ERROR", "TIMED_OUT", "CLOSED"}

\* the subscribe callback of a live channel (lines 149-151): it logs the status
OnSubscribeStatus(status) ==
    \E ch \in channels :
        /\ emitted' = << >>
        /\ op' = Op("OnSubscribeStatus", Null)
        /\ UNCHANGED << currentUser, selectedUserId, messageInput, isTyping,
                        typingTimeoutRef, timers, channels, pending, store,
                        conversationsQuery, messagesQuery, idleElapsed, expiryElapsed >>

\* a typing handler that hides the indicator after the idle delay instead
TypingTimersShort(typing) ==
    IF typing
    THEN setTimeout(clearTimeout(timers, typingTimeoutRef),
                    NewTimerId(clearTimeout(timers, typingTimeoutRef)),
                    "expiry", IdleDelay, Null, Null)
    ELSE timers

\* the timers after a typing broadcast that passed the filter
TypingTimers(typing) ==
    IF typing
    THEN setTimeout(clearTimeout(timers, typingTimeoutRef),
                    NewTimerId(clearTimeout(timers, typingTimeoutRef)),
                    "expiry", ExpiryDelay, Null, Null)
    ELSE timers

\* the broadcast 'typing' handler of a live channel
OnTypingBroadcast(userId, typing) ==
    \E ch \in channels :
        /\ FreeIds(clearTimeout(timers, typingTimeoutRef)) # {}
        /\ IF FromSelectedPeer(userId, ch.peer)
           THEN /\ isTyping' = typing
                /\ timers' = TypingTimers(typing)
                /\ typingTimeoutRef' = IF typing
                                       THEN NewTimerId(clearTimeout(timers, typingTimeoutRef))
                                       ELSE typingTimeoutRef
                /\ expiryElapsed' = IF typing THEN 0 ELSE -1
           ELSE UNCHANGED << isTyping, timers, typingTimeoutRef, expiryElapsed >>
        /\ emitted' = << >>
        /\ op' = Op("OnTypingBroadcast", Null)
        /\ UNCHANGED << currentUser, selectedUserId, messageInput, channels, pending, store,
                        conversationsQuery, messagesQuery, idleElapsed >>

\* the idle timer of handleInputChange firing: sendTypingEvent(false) of its render
IdleTimeout ==
    \E t \in timers :
        /\ t.kind = "idle"
        /\ t.left = 0
        /\ timers' = timers \ {t}
        /\ emitted' = sendTypingEvent(t.user, t.peer, FALSE)
        /\ op' = Op("IdleTimeout", Null)
        /\ idleElapsed' = -1
        /\ UNCHANGED << currentUser, selectedUserId, messageInput, isTyping,
                        typingTimeoutRef, channels, pending, store, conversationsQuery,
                        messagesQuery, expiryElapsed >>

\* the expiry timer of the typing handler firing: setIsTyping(false)
ExpiryTimeout ==
    \E t \in timers :
        /\ t.kind = "expiry"
        /\ t.left = 0
        /\ timers' = timers \ {t}
        /\ isTyping' = FALSE
        /\ emitted' = << >>
        /\ op' = Op("ExpiryTimeout", Null)
        /\ UNCHANGED << currentUser, selectedUserId, messageInput, typingTimeoutRef,
                        channels, pending, store, conversationsQuery, messagesQuery,
                        idleElapsed, expiryElapsed >>

\* a stopwatch one second on: stopped at -1, held at its cap
Later(elapsed, cap) ==
    IF elapsed = -1 THEN -1 ELSE IF elapsed < cap THEN elapsed + 1 ELSE cap

\* one second passes; a timer that is due runs first
Tick ==
    /\ \A t \in timers : t.left > 0
    /\ timers' = { [t EXCEPT !.left = t.left - 1] : t \in timers }
    /\ idleElapsed' = Later(idleElapsed, IdleDelay + 1)
    /\ expiryElapsed' = Later(expiryElapsed, ExpiryDelay + 1)
    /\ emitted' = << >>
    /\ op' = Op("Tick", Null)
    /\ UNCHANGED << currentUser, selectedUserId, messageInput, isTyping, typingTimeoutRef,
                    channels, pending, store, conversationsQuery, messagesQuery >>

\* api.getConversations() settling
FetchConversations(ok) ==
    /\ conversationsQuery.isFetching
    /\ conversationsQuery' =
         IF ok THEN FetchResolved(conversationsQuery, getConversations(store, Me))
         ELSE FetchRejected(conversationsQuery)
    /\ emitted' = << >>
    /\ op' = Op("FetchConversations", Null)
    /\ UNCHANGED << currentUser, selectedUserId, messageInput, isTyping, typingTimeoutRef,
                    timers, channels, pending, store, messagesQuery, idleElapsed,
                    expiryElapsed >>

\* api.getMessages(k) settling
FetchMessages(k, ok) ==
    /\ messagesQuery[k].isFetching
    /\ messagesQuery' =
         [messagesQuery EXCEPT ![k] =
             IF ok THEN FetchResolved(messagesQuery[k], getMessages(store, Me, k))
             ELSE FetchRejected(messagesQuery[k])]
    /\ emitted' = << >>
    /\ op' = Op("FetchMessages", Null)
    /\ UNCHANGED << currentUser, selectedUserId, messageInput, isTyping, typingTimeoutRef,
                    timers, channels, pending, store, conversationsQuery, idleElapsed,
                    expiryElapsed >>

\* another user's client creating a row addressed to this user
RemoteInsert(sender) ==
    /\ Len(store) < MaxMsgs
    /\ store' = createMessage(store, sender, Me, Text)
    /\ emitted' = << >>
    /\ op' = Op("RemoteInsert", Null)
    /\ UNCHANGED << currentUser, selectedUserId, messageInput, isTyping, typingTimeoutRef,
                    timers, channels, pending, conversationsQuery, messagesQuery,
                    idleElapsed, expiryElapsed >>

Next ==
    \/ \E u \in {Null, Me} : AuthChange(u)
    \/ \E p \in Peers \cup {Null} : SelectPeer(p)
    \/ \E value \in Drafts : handleInputChange(value)
    \/ ClickSend
    \/ handleKeyPress
    \/ \E i \in 1 .. MaxPending : SendSuccess(i)
    \/ \E i \in 1 .. MaxPending : SendFailure(i)
    \/ \E sender \in Users, receiver \in Users : OnChangeEvent(sender, receiver)
    \/ \E userId \in Users, typing \in BOOLEAN : OnTypingBroadcast(userId, typing)
    \/ \E status \in Statuses : OnSubscribeStatus(status)
    \/ IdleTimeout
    \/ ExpiryTimeout
    \/ Tick
    \/ \E ok \in BOOLEAN : FetchConversations(ok)
    \/ \E k \in Peers, ok \in BOOLEAN : FetchMessages(k, ok)
    \/ \E sender \in Users \ {Me} : RemoteInsert(sender)

Spec == Init /\ [][Next]_vars

\* The drafts that differ in what the handlers read of them outside the
\* composer: empty, blank, and with text.
ShortDrafts == { d \in Drafts : Len(d) <= 1 }

\* The subscription and the typing indicator: the handlers that read or write
\* the channel, the timers or the typing flag.  The handlers left out
\* (OnChangeEvent, FetchConversations, FetchMessages, RemoteInsert) leave every
\* one of those variables unchanged.
NextTyping ==
    \/ \E u \in {Null, Me} : AuthChange(u)
    \/ \E p \in Peers \cup {Null} : SelectPeer(p)
    \/ \E value \in ShortDrafts : handleInputChange(value)
    \/ ClickSend
    \/ handleKeyPress
    \/ \E i \in 1 .. MaxPending : SendSuccess(i)
    \/ \E i \in 1 .. MaxPending : SendFailure(i)
    \/ \E userId \in Users, typing \in BOOLEAN : OnTypingBroadcast(userId, typing)
    \/ IdleTimeout
    \/ ExpiryTimeout
    \/ Tick

SpecTyping == Init /\ [][NextTyping]_vars

\* The same with time going on: a timer that is due runs, and a second passes
\* while a timer is pending.  The user, the peer and the network owe nothing.
SpecTypingFair ==
    SpecTyping /\ WF_vars(IdleTimeout) /\ WF_vars(ExpiryTimeout) /\ WF_vars(Tick)

\* The composer: the handlers that read or write the draft or the requests in
\* flight, over every draft up to MaxLen and with one peer or the other selected
\* (the composer is not on screen without one).  No time passes and no event
\* arrives.
NextComposer ==
    \/ AuthChange(Me)
    \/ \E p \in {PeerB, PeerC} : SelectPeer(p)
    \/ \E value \in Drafts : handleInputChange(value)
    \/ ClickSend
    \/ handleKeyPress
    \/ \E i \in 1 .. MaxPending : SendSuccess(i)
    \/ \E i \in 1 .. MaxPending : SendFailure(i)

SpecComposer == Init /\ [][NextComposer]_vars

\* The store and the two queries under events from outside: the handlers
\* that read or write the rows or the cached queries while nothing is composed.
NextStore ==
    \/ AuthChange(Me)
    \/ \E p \in {PeerB, PeerC, Null} : SelectPeer(p)
    \/ \E sender \in Users, receiver \in Users : OnChangeEvent(sender, receiver)
    \/ \E ok \in BOOLEAN : FetchConversations(ok)
    \/ \E k \in Peers, ok \in BOOLEAN : FetchMessages(k, ok)
    \/ \E sender \in Users \ {Me} : RemoteInsert(sender)

SpecStore == Init /\ [][NextStore]_vars

\* Sending and the refresh it triggers: the composer with the two queries,
\* while no event arrives from outside and no time passes.  The draft is the
\* text to send, or empty once a send has resolved.
NextSend ==
    \/ AuthChange(Me)
    \/ \E p \in {PeerB, PeerC, Null} : SelectPeer(p)
    \/ \E value \in {Text} : handleInputChange(value)
    \/ ClickSend
    \/ handleKeyPress
    \/ \E i \in 1 .. MaxPending : SendSuccess(i)
    \/ \E i \in 1 .. MaxPending : SendFailure(i)
    \/ \E ok \in BOOLEAN : FetchConversations(ok)
    \/ \E k \in Peers, ok \in BOOLEAN : FetchMessages(k, ok)

SpecSend == Init /\ [][NextSend]_vars

\* A sent message and its echo: sending as in NextSend, with the change events
\* of the live channel about the user's own rows, which may repeat.  The rows
\* change by sends alone and every fetch is answered.
NextEcho ==
    \/ AuthChange(Me)
    \/ \E p \in {PeerB, PeerC, Null} : SelectPeer(p)
    \/ \E value \in {Text} : handleInputChange(value)
    \/ ClickSend
    \/ handleKeyPress
    \/ \E i \in 1 .. MaxPending : SendSuccess(i)
    \/ \E i \in 1 .. MaxPending : SendFailure(i)
    \/ \E receiver \in Users : OnChangeEvent(Me, receiver)
    \/ FetchConversations(TRUE)
    \/ \E k \in Peers : FetchMessages(k, TRUE)

SpecEcho == Init /\ [][NextEcho]_vars

\* Enter pressed again: the composer with one text to send and room for
\* MaxInFlight requests, so that a send made while another is pending shows.
NextResend ==
    \/ AuthChange(Me)
    \/ \E p \in {PeerB, PeerC} : SelectPeer(p)
    \/ \E value \in ShortDrafts : handleInputChange(value)
    \/ ClickSend
    \/ handleKeyPressWithin(MaxInFlight)
    \/ \E i \in 1 .. MaxInFlight : SendSuccess(i)
    \/ \E i \in 1 .. MaxInFlight : SendFailure(i)

SpecResend == Init /\ [][NextResend]_vars

\* Switching peers while results are still on their way: the store and the
\* two queries as in NextStore, with the typing broadcasts and the status
\* reports of the live channel.  The list is always answered; a thread fetch
\* may fail.  No time passes.
NextSwitch ==
    \/ AuthChange(Me)
    \/ \E p \in {PeerB, PeerC, Null} : SelectPeer(p)
    \/ \E sender \in Users, receiver \in Users : OnChangeEvent(sender, receiver)
    \/ \E userId \in Users, typing \in BOOLEAN : OnTypingBroadcast(userId, typing)
    \/ \E status \in Statuses : OnSubscribeStatus(status)
    \/ FetchConversations(TRUE)
    \/ \E k \in Peers, ok \in BOOLEAN : FetchMessages(k, ok)
    \/ \E sender \in Users \ {Me} : RemoteInsert(sender)

SpecSwitch == Init /\ [][NextSwitch]_vars

\* The topic derivation on its own: a page signed in as any id with any id
\* selected runs the subscription effect and publishes typing events.  The ids
\* are every non-empty string up to MaxIdLen over two letters and the separator.
IdChars == {Me[1], PeerB[1], Dash}
Ids == SeqsUpTo(IdChars, MaxIdLen) \ { << >> }
PlainIds == SeqsUpTo(IdChars \ {Dash}, MaxIdLen) \ { << >> }

InitTopic ==
    /\ currentUser \in Ids
    /\ selectedUserId \in Ids
    /\ messageInput = << >>
    /\ isTyping = FALSE
    /\ typingTimeoutRef = 0
    /\ timers = {}
    /\ channels = {}
    /\ pending = << >>
    /\ store = << >>
    /\ conversationsQuery = NoConversations
    /\ messagesQuery = [k \in Peers |-> NoQueryData]
    /\ emitted = << >>
    /\ op = Op("mount", Null)
    /\ idleElapsed = -1
    /\ expiryElapsed = -1

\* the subscription effect running for the page's user and peer
Subscribe ==
    /\ channels = {}
    /\ RerunEffect(currentUser, selectedUserId)
    /\ emitted' = << >>
    /\ op' = Op("Subscribe", Null)
    /\ UNCHANGED << currentUser, selectedUserId, messageInput, isTyping, typingTimeoutRef,
                    pending, store, conversationsQuery, messagesQuery, idleElapsed,
                    expiryElapsed >>

NextTopic ==
    \/ Subscribe
    \/ \E value \in ShortDrafts : handleInputChange(value)

SpecTopic == InitTopic /\ [][NextTopic]_vars

(* ---- the subscription ---- *)

\* C1: in every state at most one channel is live, none is live without a
\* current user and a selected peer, and the live one is the channel of the
\* selected peer: the previous peer's channel is gone in the very step that
\* opens the next one.
C1_SingleSubscription ==
    /\ Cardinality(channels) <= 1
    /\ (currentUser = Null \/ selectedUserId = Null) => channels = {}
    /\ \A ch \in channels : ch.user = currentUser /\ ch.peer = selectedUserId

\* C1 witness: the peer was switched from b to c and c's channel is the live one.
C1_SwitchedFromBToC ==
    /\ op = Op("SelectPeer", PeerB)
    /\ currentUser = Me
    /\ selectedUserId = PeerC
    /\ channels = { [topic |-> channelName(Me, PeerC), user |-> Me, peer |-> PeerC] }

(* ---- the typing indicator ---- *)

\* C3: from the receipt of a typing:true of the selected peer, and while no
\* further event follows, the indicator is on for the first three seconds and
\* is off before a fourth begins; the timer that turns it off runs at three
\* seconds, with no typing:false delivered.
C3_RemoteTypingExpires ==
    /\ expiryElapsed \in 0 .. 2 => isTyping
    /\ expiryElapsed > 3 => ~isTyping
    /\ (op.name = "ExpiryTimeout" /\ expiryElapsed # -1) => expiryElapsed = 3

\* C3 witness: the expiry timer ran three seconds after the receipt.
C3_ExpiredAtThree ==
    /\ op.name = "ExpiryTimeout"
    /\ expiryElapsed = 3
    /\ ~isTyping

\* C4 as claimed: two seconds after the last non-empty input change, with no
\* further input, send or peer change, the typing:false has been published:
\* the third second never begins with it still owed.
C4_IdleFalseAfterTwoSeconds == idleElapsed <= 2

\* C6 as claimed: a send that goes out leaves no idle timer pending, so no
\* stale typing:false follows it.
C6_SendCancelsIdleTimer ==
    (op.name \in {"ClickSend", "handleKeyPress"} /\ emitted # << >>)
        => \A t \in timers : t.kind # "idle"

\* C7 as claimed: a typing broadcast changes the indicator or its timer only
\* when its declared sender is the selected peer, and never when the declared
\* sender is the current user.
C7_TypingOnlyFromPeer ==
    [][ \A userId \in Users, typing \in BOOLEAN :
          (OnTypingBroadcast(userId, typing)
             /\ (userId # selectedUserId \/ userId = currentUser))
          => UNCHANGED typingVars ]_vars

\* What does hold of the filter: a broadcast whose declared sender is not the
\* selected peer changes neither the indicator nor its timer.
TypingIgnoredFromOthers ==
    [][ \A userId \in Users, typing \in BOOLEAN :
          (OnTypingBroadcast(userId, typing) /\ userId # selectedUserId)
          => UNCHANGED typingVars ]_vars

\* C13 as claimed: whenever the indicator is on, an expiry timer is pending
\* that will turn it off.
C13_TypingHasExpiryTimer ==
    isTyping => \E t \in timers : t.kind = "expiry"

\* the pending timers of one kind
TimersOfKind(ts, kind) == { t \in ts : t.kind = kind }

\* C14 as claimed: an input change leaves a pending expiry timer as it is, a
\* typing broadcast leaves a pending idle timer as it is, and neither leaves
\* two timers of its own kind pending.
C14_TimersIndependent ==
    [][ /\ (\E value \in Drafts : handleInputChange(value)) =>
            /\ TimersOfKind(timers', "expiry") = TimersOfKind(timers, "expiry")
            /\ Cardinality(TimersOfKind(timers', "idle")) <= 1
        /\ (\E userId \in Users, typing \in BOOLEAN : OnTypingBroadcast(userId, typing)) =>
            /\ TimersOfKind(timers', "idle") = TimersOfKind(timers, "idle")
            /\ Cardinality(TimersOfKind(timers', "expiry")) <= 1
      ]_vars

\* C15 as claimed: the indicator is off once the selected peer has changed,
\* and it comes on only by a typing:true of the selected peer.
C15_TypingOfActiveConversation ==
    [][ /\ (\E p \in Peers \cup {Null} : SelectPeer(p)) => ~isTyping'
        /\ (~isTyping /\ isTyping') => OnTypingBroadcast(selectedUserId, TRUE)
      ]_vars

\* a typing event with this flag was published on the topic by the last handler
Published(topic, typing) ==
    \E i \in 1 .. Len(emitted) :
        emitted[i].topic = topic /\ emitted[i].isTyping = typing

\* C20 as claimed: on every topic of the user, a typing:true published is
\* followed, sooner or later, by a typing:false published on the same topic.
C20_TypingTrueThenFalse ==
    \A p \in Peers :
        [](Published(channelName(Me, p), TRUE)
             => <>Published(channelName(Me, p), FALSE))

(* ---- the composer ---- *)

\* a string of whitespace only
Blank(d) == \A k \in 1 .. Len(d) : d[k] = Space

\* c is d without its leading and its trailing whitespace
IsTrimOf(c, d) ==
    \E i \in 0 .. Len(d), j \in 0 .. Len(d) :
        /\ i + j <= Len(d)
        /\ c = SubSeq(d, i + 1, Len(d) - j)
        /\ \A k \in 1 .. i : d[k] = Space
        /\ \A k \in (Len(d) - j + 1) .. Len(d) : d[k] = Space
        /\ c = << >> \/ (c[1] # Space /\ c[Len(c)] # Space)

\* C5: a send action with a blank draft or without a peer issues no request,
\* publishes no typing event and leaves the draft; any other send issues
\* exactly one request, to the selected peer, whose content is the draft
\* without its leading and trailing whitespace.
C5_SendGuardAndTrim ==
    [][ (ClickSend \/ handleKeyPress) =>
          IF Blank(messageInput) \/ selectedUserId = Null
          THEN pending' = pending /\ emitted' = << >> /\ messageInput' = messageInput
          ELSE \E c \in Drafts :
                  /\ IsTrimOf(c, messageInput)
                  /\ pending' = Append(pending, [receiverId |-> selectedUserId, content |-> c])
      ]_vars

\* C5 witness: Enter on the draft " h" with b selected issued the request (b, "h").
C5_SentTrimmed ==
    /\ op.name = "handleKeyPress"
    /\ messageInput = <<Space>> \o Text
    /\ pending = << [receiverId |-> PeerB, content |-> Text] >>

\* C9: a rejected send leaves the draft as it is and publishes nothing; the
\* typing:false of a send is published when the request is issued, before its
\* outcome exists, so it is the same on both paths.
C9_FailureKeepsDraft ==
    [][ /\ (\E i \in 1 .. MaxPending : SendFailure(i))
            => (messageInput' = messageInput /\ emitted' = << >>)
        /\ (\E i \in 1 .. MaxPending : SendSuccess(i)) => emitted' = << >>
        /\ ((ClickSend \/ handleKeyPress) /\ pending' # pending)
            => emitted' = << [topic |-> channelName(currentUser, selectedUserId),
                              userId |-> currentUser, isTyping |-> FALSE] >>
      ]_vars

\* C9 witness: a send was rejected and the draft still holds the text.
C9_FailedWithDraft ==
    /\ op.name = "SendFailure"
    /\ messageInput = Text
    /\ pending = << >>

\* C21 as claimed: a resolved send leaves the draft when the draft holds text
\* that is not the text of its request, the user having typed on since the
\* request was issued.
C21_SuccessKeepsLaterText ==
    [][ \A i \in 1 .. MaxPending :
          (SendSuccess(i) /\ Trim(messageInput) # << >>
                         /\ Trim(messageInput) # pending[i].content)
          => messageInput' = messageInput ]_vars

\* C22 as claimed: while a request is in flight, a send action by the button
\* or by Enter issues no further request.
C22_OneRequestInFlight ==
    [][ ((ClickSend \/ handleKeyPressWithin(MaxInFlight)) /\ pending # << >>)
          => pending' = pending ]_vars

(* ---- the store and the queries ---- *)

\* what the page shows of a query: its data, or the default of the
\* destructuring (data = []) while it has none
Shown(q, default) == IF q.hasData THEN q.data ELSE default

\* C2: while a conversation is active, a change event whose sender/receiver
\* pair is not the pair {current user, selected peer} leaves both queries
\* exactly as they were: no refetch of the thread, none of the list.
C2_IrrelevantEventIgnored ==
    [][ \A sender \in Users, receiver \in Users :
          (OnChangeEvent(sender, receiver)
             /\ {sender, receiver} # {currentUser, selectedUserId})
          => UNCHANGED queryVars ]_vars

\* C2 witness: with b selected and both queries loaded and at rest, a change
\* event was handled and neither query refetches.
C2_EventLeftQueriesAtRest ==
    /\ op.name = "OnChangeEvent"
    /\ selectedUserId = PeerB
    /\ conversationsQuery.hasData /\ ~conversationsQuery.isFetching
    /\ messagesQuery[PeerB].hasData /\ ~messagesQuery[PeerB].isFetching

\* C10: a rejected fetch of the conversation list or of a thread leaves what
\* the page shows for that key as it was, never an empty list in place of
\* cached rows, and records the error on the query.
C10_FailedRefreshKeepsCache ==
    [][ /\ FetchConversations(FALSE) =>
            /\ Shown(conversationsQuery', {}) = Shown(conversationsQuery, {})
            /\ conversationsQuery'.hasData = conversationsQuery.hasData
            /\ conversationsQuery'.isError
        /\ \A k \in Peers : FetchMessages(k, FALSE) =>
            /\ Shown(messagesQuery'[k], << >>) = Shown(messagesQuery[k], << >>)
            /\ messagesQuery'[k].hasData = messagesQuery[k].hasData
            /\ messagesQuery'[k].isError
      ]_vars

\* C10 witness: a refresh of the conversation list was rejected while a
\* conversation was cached; it is still there, with the error recorded.
C10_ErrorWithCachedList ==
    /\ op.name = "FetchConversations"
    /\ conversationsQuery.isError
    /\ conversationsQuery.hasData
    /\ conversationsQuery.data # {}

\* C16: while a conversation is active, a change event whose sender/receiver
\* pair is the pair {current user, selected peer}, in either direction, starts
\* a refetch of the selected peer's thread and of the conversation list.
C16_RelevantEventRefreshesBoth ==
    [][ \A sender \in Users, receiver \in Users :
          (OnChangeEvent(sender, receiver)
             /\ {sender, receiver} = {currentUser, selectedUserId})
          => /\ messagesQuery'[selectedUserId].isFetching
             /\ conversationsQuery'.isFetching ]_vars

\* C16 witness: with b selected and both queries loaded, a change event was
\* handled and both are refetching while the cached rows stay on screen.
C16_BothRefetching ==
    /\ op.name = "OnChangeEvent"
    /\ selectedUserId = PeerB
    /\ conversationsQuery.hasData /\ conversationsQuery.isFetching
    /\ messagesQuery[PeerB].hasData /\ messagesQuery[PeerB].isFetching

\* the rows exchanged by a and b, oldest first
Thread(rows, a, b) ==
    SelectSeq(rows, LAMBDA m : {m.sender_id, m.receiver_id} = {a, b})

\* C8: a resolved send empties the draft and starts a refetch of the
\* conversation list and of the selected peer's thread; a thread refetch that
\* resolves shows the rows of the store, the created one included.
C8_SuccessClearsAndRefreshes ==
    [][ /\ (\E i \in 1 .. MaxPending : SendSuccess(i)) =>
            /\ messageInput' = << >>
            /\ currentUser # Null => conversationsQuery'.isFetching
            /\ (currentUser # Null /\ selectedUserId # Null)
                  => messagesQuery'[selectedUserId].isFetching
        /\ \A k \in Peers : FetchMessages(k, TRUE) =>
            Shown(messagesQuery'[k], << >>) = Thread(store, Me, k)
      ]_vars

\* C8 witness: U1 selected U2, sent "h" into an empty thread, the send
\* resolved creating m1, and the refreshed thread is [m1] with an empty draft
\* and no typing shown.
C8_ThreadShowsSentMessage ==
    /\ currentUser = Me /\ selectedUserId = PeerB
    /\ store = << [id |-> 1, sender_id |-> Me, receiver_id |-> PeerB, content |-> Text] >>
    /\ Shown(messagesQuery[PeerB], << >>) = store
    /\ ~messagesQuery[PeerB].isFetching
    /\ messageInput = << >>
    /\ pending = << >>
    /\ ~isTyping

C18_ErrorReleasesSubscription ==
    [][ \A status \in {"CHANNEL_ERROR", "TIMED_OUT"} :
          OnSubscribeStatus(status) => (channels' = {} /\ UNCHANGED queryVars) ]_vars

\* a refresh of both the selected thread and the list is under way
RefreshPending ==
    /\ conversationsQuery.isFetching
    /\ selectedUserId # Null => messagesQuery[selectedUserId].isFetching

\* what a query holds, apart from its fetch in flight
Cached(q) == << q.hasData, q.data >>

\* C19: a change event or a send success writes no cached value itself, and
\* one handled while the refresh it asks for is already under way changes
\* nothing; a refresh that resolves leaves exactly the backend's rows, whatever
\* the cache held and however many triggers preceded it, so one that repeats
\* over unchanged rows leaves the thread and the list as they were.
C19_InvalidationIdempotent ==
    [][ /\ ((\E sender \in Users, receiver \in Users : OnChangeEvent(sender, receiver))
                \/ (\E i \in 1 .. MaxPending : SendSuccess(i)))
            => /\ Cached(conversationsQuery') = Cached(conversationsQuery)
               /\ \A k \in Peers : Cached(messagesQuery'[k]) = Cached(messagesQuery[k])
               /\ RefreshPending => UNCHANGED queryVars
        /\ \A k \in Peers : FetchMessages(k, TRUE) =>
               /\ Cached(messagesQuery'[k]) = << TRUE, Thread(store, Me, k) >>
               /\ Cached(messagesQuery[k]) = << TRUE, Thread(store, Me, k) >>
                     => Cached(messagesQuery'[k]) = Cached(messagesQuery[k])
        /\ FetchConversations(TRUE) =>
               /\ Cached(conversationsQuery') = << TRUE, getConversations(store, Me) >>
               /\ Cached(conversationsQuery) = << TRUE, getConversations(store, Me) >>
                     => Cached(conversationsQuery') = Cached(conversationsQuery)
      ]_vars

\* C19 witness: the sent row is in b's thread and in the list after the
\* refresh of the send success, and the echo of the same row has been handled:
\* both queries refetch with the refreshed rows still cached.
C19_EchoAfterRefresh ==
    /\ op.name = "OnChangeEvent"
    /\ selectedUserId = PeerB
    /\ store # << >>
    /\ Cached(messagesQuery[PeerB]) = << TRUE, store >>
    /\ Cached(conversationsQuery) = << TRUE, getConversations(store, Me) >>
    /\ RefreshPending

(* ---- the topic ---- *)

\* C11: the topic a page subscribes to is the one the peer's page derives with
\* the two ids exchanged, and every typing event the page publishes goes to the
\* topic it is subscribed to.
C11_TopicSymmetric ==
    /\ channelName(currentUser, selectedUserId) = channelName(selectedUserId, currentUser)
    /\ \A ch \in channels :
          /\ ch.topic = channelName(ch.peer, ch.user)
          /\ \A i \in 1 .. Len(emitted) : emitted[i].topic = ch.topic

\* C11 witness: the page of "b" with "a" selected is subscribed and has
\* published a typing event; the topic puts "a" first.
C11_PublishedOnSubscribedTopic ==
    /\ currentUser = PeerB /\ selectedUserId = Me
    /\ channels # {} /\ emitted # << >>
    /\ emitted[1].topic = ChatPrefix \o Me \o <<Dash>> \o PeerB

\* C12: when the page's two ids are distinct and hold no separator, no other
\* unordered pair of distinct separator-free ids derives the topic the page is
\* subscribed to.
C12_NoTopicCollision ==
    \A ch \in channels :
        (ch.user \in PlainIds /\ ch.peer \in PlainIds /\ ch.user # ch.peer)
        => \A c \in PlainIds, d \in PlainIds :
              (c # d /\ {c, d} # {ch.user, ch.peer}) => channelName(c, d) # ch.topic

\* C12 witness: the page of "a" with "ab" selected is subscribed to chat-a-ab,
\* the topic that "aa" and "b" would share with it were the separator left out.
C12_SubscribedPlainPair ==
    /\ currentUser = Me /\ selectedUserId = Me \o PeerB
    /\ \E ch \in channels : ch.topic = ChatPrefix \o Me \o <<Dash>> \o Me \o PeerB

====
